---- MODULE Spec2Model ----
(***************************************************************************)
(* Sales dashboard (src/src/frontend/app.py): the TTL-cached load_data()   *)
(* with its bounded retry loop, calculate_kpis() and the page run main().  *)
(***************************************************************************)
EXTENDS Integers, Sequences, FiniteSets, TLC

VARIABLES now, store, cache, pc, attempt, df, trace, result, error, call, kpis

vars == <<now, store, cache, pc, attempt, df, trace, result, error, call, kpis>>

(* ---------------- program constants ---------------- *)
ttl == 60
retries == 5
delay == 10

(* ---------------- bounds of the model ---------------- *)
MaxTime == 70
MaxRows == 2
TickSteps == {1, 10}

(* ---------------- data frames ---------------- *)
Rec(tv, q, gp) == [total_value |-> tv, quantity_sold |-> q, gross_profit |-> gp]

Frame(rs) == [kind |-> "frame", cols |-> TRUE, rows |-> rs]

\* pd.DataFrame(): no rows and no columns
EmptyFrame == [kind |-> "frame", cols |-> FALSE, rows |-> <<>>]

\* the value of a function call that falls off the end of the for loop
NoneValue == [kind |-> "none", cols |-> FALSE, rows |-> <<>>]

ExampleFrame == Frame(<<Rec(100, 2, 20), Rec(200, 3, 50)>>)
ZeroRevenueFrame == Frame(<<Rec(-1, 1, 1), Rec(1, 2, 1)>>)
NoRowsFrame == Frame(<<>>)

\* what SELECT * FROM sales_data may return in the page model
StoreFrames == {ExampleFrame, ZeroRevenueFrame, NoRowsFrame}

Records == { Rec(tv, q, gp) : tv \in {-1, 0, 1}, q \in {0, 2}, gp \in {-1, 0, 1} }
             \cup {Rec(100, 2, 20), Rec(200, 3, 50)}

RECURSIVE SeqsUpTo(_)
SeqsUpTo(n) == IF n = 0 THEN {<<>>}
               ELSE LET S == SeqsUpTo(n - 1)
                    IN  S \cup { Append(s, r) : s \in {x \in S : Len(x) = n - 1}, r \in Records }

\* the inputs calculate_kpis is checked on
KpiFrames == { Frame(rs) : rs \in SeqsUpTo(MaxRows) } \cup {EmptyFrame}

(* ---------------- numbers: exact rationals and NaN ---------------- *)
Abs(x) == IF x < 0 THEN -x ELSE x

RECURSIVE GCD(_, _)
GCD(a, b) == IF b = 0 THEN a ELSE GCD(b, a % b)

NaN == [nan |-> TRUE, num |-> 0, den |-> 1]

\* n / d for d # 0, in lowest terms with a positive denominator
Rat(n, d) == LET g == GCD(Abs(n), Abs(d))
                 s == IF d < 0 THEN -1 ELSE 1
             IN  [nan |-> FALSE, num |-> (s * n) \div g, den |-> (s * d) \div g]

RECURSIVE ColumnSum(_, _)
\* Series.sum()
ColumnSum(rs, col) == IF rs = <<>> THEN 0
                      ELSE Head(rs)[col] + ColumnSum(Tail(rs), col)

ColumnMeanOffByOne(rs, col) == IF Len(rs) <= 1 THEN NaN
                               ELSE Rat(ColumnSum(rs, col), Len(rs) - 1)

\* Series.mean(): NaN on an empty column
ColumnMean(rs, col) == IF rs = <<>> THEN NaN
                       ELSE Rat(ColumnSum(rs, col), Len(rs))

MarginUnguarded(gp, tr) == IF tr = 0 THEN NaN ELSE Rat(gp * 100, tr)

\* (gross_profit.sum() / total_revenue * 100) if total_revenue != 0 else 0
Margin(gp, tr) == IF tr # 0 THEN Rat(gp * 100, tr) ELSE Rat(0, 1)

NoKpis == [err |-> "unset", total_revenue |-> NaN, avg_order_value |-> NaN,
           total_quantity_sold |-> NaN, avg_quantity_sold |-> NaN,
           gross_profit_margin |-> NaN]

KpiError(e) == [NoKpis EXCEPT !.err = e]

\* calculate_kpis(df): subscripting None is a TypeError, a frame without the
\* column a KeyError, both raised at the first subscript
calculate_kpis(d) ==
    IF d.kind = "none" THEN KpiError("TypeError")
    ELSE IF ~d.cols THEN KpiError("KeyError")
    ELSE LET total_revenue == ColumnSum(d.rows, "total_value")
         IN  [err |-> "none",
              total_revenue |-> Rat(total_revenue, 1),
              avg_order_value |-> ColumnMean(d.rows, "total_value"),
              total_quantity_sold |-> Rat(ColumnSum(d.rows, "quantity_sold"), 1),
              avg_quantity_sold |-> ColumnMean(d.rows, "quantity_sold"),
              gross_profit_margin |-> Margin(ColumnSum(d.rows, "gross_profit"), total_revenue)]

(* ---------------- the store and the cache ---------------- *)
StoreStates == {"up", "down", "fault_connect", "fault_query"}

\* what engine.connect() does in each state of the store
ConnectResult(s) == CASE s = "down" -> "OperationalError"
                      [] s = "fault_connect" -> "InterfaceError"
                      [] OTHER -> "ok"

\* what pd.read_sql(...) does in each state of the store
QueryResult(s) == CASE s = "down" -> "OperationalError"
                    [] s = "fault_connect" -> "InterfaceError"
                    [] s = "fault_query" -> "ProgrammingError"
                    [] OTHER -> "ok"

NoEntry == [present |-> FALSE, value |-> NoneValue, ts |-> 0]

CacheFreshAbsolute(c, t) == c.present /\ t < ttl

\* st.cache_data(ttl=60): an entry is served while it is younger than the ttl
CacheFresh(c, t) == c.present /\ t - c.ts < ttl

CacheStoreKeepTs(c, v, t) == [present |-> TRUE, value |-> v, ts |-> c.ts]

CacheStoreSkipEmpty(c, v, t) == IF v = EmptyFrame THEN c
                                ELSE [present |-> TRUE, value |-> v, ts |-> t]

\* st.cache_data: the returned value is stored with the time of the store
CacheStore(c, v, t) == [present |-> TRUE, value |-> v, ts |-> t]

CaughtAll(exc) == TRUE

\* except OperationalError
Caught(exc) == exc = "OperationalError"

NeverLastAttempt(a) == ~(a < retries)

\* the else branch of: if attempt < retries - 1
IsLastAttempt(a) == ~(a < retries - 1)

SleepUntilNoWait(t) == t

\* time.sleep(delay)
SleepUntil(t) == t + delay

Event(op, res, f) == [op |-> op, at |-> now, res |-> res, frame |-> f]

NoCall == [at |-> 0, entry |-> NoEntry]

(* ---------------- the page run ---------------- *)
Init ==
    /\ now = 0
    /\ store \in StoreStates
    /\ cache = NoEntry
    /\ pc = "start"
    /\ attempt = 0
    /\ df = NoneValue
    /\ trace = <<>>
    /\ result = "none"
    /\ error = "none"
    /\ call = NoCall
    /\ kpis = NoKpis

\* the environment: the store goes down, comes back, or starts refusing
StoreChange ==
    /\ pc \in {"start", "connect", "query", "sleep"}
    /\ \E s \in StoreStates \ {store} : store' = s
    /\ UNCHANGED <<now, cache, pc, attempt, df, trace, result, error, call, kpis>>

\* time passes before the script runs
Tick ==
    /\ pc = "start"
    /\ now < MaxTime
    /\ \E d \in TickSteps : now' = now + d
    /\ UNCHANGED <<store, cache, pc, attempt, df, trace, result, error, call, kpis>>

\* main() calls load_data() and the cache serves the entry
LoadHit ==
    /\ pc = "start"
    /\ CacheFresh(cache, now)
    /\ df' = cache.value
    /\ result' = "hit"
    /\ call' = [at |-> now, entry |-> cache]
    /\ pc' = "kpis"
    /\ UNCHANGED <<now, store, cache, attempt, trace, error, kpis>>

\* main() calls load_data() and the function body runs: attempt 0 of the loop
LoadMiss ==
    /\ pc = "start"
    /\ ~CacheFresh(cache, now)
    /\ result' = "running"
    /\ call' = [at |-> now, entry |-> cache]
    /\ attempt' = 0
    /\ pc' = "connect"
    /\ UNCHANGED <<now, store, cache, df, trace, error, kpis>>

\* load_data returns v: the wrapper stores it and main continues
Return(v, tr) ==
    /\ trace' = tr
    /\ cache' = CacheStore(cache, v, now')
    /\ df' = v
    /\ result' = "returned"
    /\ pc' = "kpis"
    /\ UNCHANGED <<store, attempt, error, kpis>>

\* an exception raised inside the try block
Raised(exc, tr) ==
    IF Caught(exc)
    THEN IF IsLastAttempt(attempt)
         THEN /\ now' = now
              /\ Return(EmptyFrame, Append(tr, Event("warning", "ok", NoneValue)))
         ELSE /\ trace' = tr
              /\ pc' = "sleep"
              /\ UNCHANGED <<now, store, cache, attempt, df, result, error, call, kpis>>
    ELSE /\ trace' = tr
         /\ pc' = "crashed"
         /\ result' = "raised"
         /\ error' = exc
         /\ UNCHANGED <<now, store, cache, attempt, df, call, kpis>>

\* with engine.connect() as connection
Connect ==
    /\ pc = "connect"
    /\ LET r == ConnectResult(store)
           tr == Append(trace, Event("connect", r, NoneValue))
       IN  IF r = "ok"
           THEN /\ trace' = tr
                /\ pc' = "query"
                /\ UNCHANGED <<now, store, cache, attempt, df, result, error, call, kpis>>
           ELSE Raised(r, tr) /\ call' = call

\* df = pd.read_sql("SELECT * FROM sales_data", connection); return df
Query ==
    /\ pc = "query"
    /\ LET r == QueryResult(store)
       IN  IF r = "ok"
           THEN \E f \in StoreFrames :
                   /\ now' = now
                   /\ call' = call
                   /\ Return(f, Append(trace, Event("query", r, f)))
           ELSE Raised(r, Append(trace, Event("query", r, NoneValue))) /\ call' = call

\* time.sleep(delay), then the next iteration of the loop; a loop that runs
\* out of iterations leaves the function without a return value
Sleep ==
    /\ pc = "sleep"
    /\ now' = SleepUntil(now)
    /\ call' = call
    /\ LET tr == Append(trace, Event("sleep", "ok", NoneValue))
       IN  IF attempt + 1 < retries
           THEN /\ attempt' = attempt + 1
                /\ trace' = tr
                /\ pc' = "connect"
                /\ UNCHANGED <<store, cache, df, result, error, kpis>>
           ELSE Return(NoneValue, tr)

\* the KPI line of main()
CalcKpis ==
    /\ pc = "kpis"
    /\ kpis' = calculate_kpis(df)
    /\ IF kpis'.err = "none"
       THEN pc' = "render" /\ error' = error
       ELSE pc' = "crashed" /\ error' = kpis'.err
    /\ UNCHANGED <<now, store, cache, attempt, df, trace, result, call>>

\* the metrics and the charts
Render ==
    /\ pc = "render"
    /\ pc' = "done"
    /\ UNCHANGED <<now, store, cache, attempt, df, trace, result, error, call, kpis>>

\* the Rerun button, or any other rerun of the script
Rerun ==
    /\ pc \in {"done", "crashed"}
    /\ now <= MaxTime
    /\ pc' = "start"
    /\ attempt' = 0
    /\ df' = NoneValue
    /\ trace' = <<>>
    /\ result' = "none"
    /\ error' = "none"
    /\ call' = NoCall
    /\ kpis' = NoKpis
    /\ UNCHANGED <<now, store, cache>>

Next == \/ StoreChange
        \/ Tick
        \/ LoadHit
        \/ LoadMiss
        \/ Connect
        \/ Query
        \/ Sleep
        \/ CalcKpis
        \/ Render
        \/ Rerun

Spec == Init /\ [][Next]_vars

(* ---------------- calculate_kpis on its own ---------------- *)
KpiInit ==
    /\ now = 0
    /\ store = "up"
    /\ cache = NoEntry
    /\ pc = "kpi_call"
    /\ attempt = 0
    /\ df \in KpiFrames
    /\ trace = <<>>
    /\ result = "none"
    /\ error = "none"
    /\ call = NoCall
    /\ kpis = NoKpis

KpiCalc ==
    /\ pc = "kpi_call"
    /\ kpis' = calculate_kpis(df)
    /\ error' = IF kpis'.err = "none" THEN error ELSE kpis'.err
    /\ pc' = "kpi_done"
    /\ UNCHANGED <<now, store, cache, attempt, df, trace, result, call>>

KpiNext == KpiCalc

KpiSpec == KpiInit /\ [][KpiNext]_vars

(* ---------------- reading the trace of a load_data execution ---------------- *)
Connects == SelectSeq(trace, LAMBDA e : e.op = "connect")

Sleeps == SelectSeq(trace, LAMBDA e : e.op = "sleep")

Warnings == SelectSeq(trace, LAMBDA e : e.op = "warning")

TransientFailures == SelectSeq(trace, LAMBDA e : e.res = "OperationalError")

OtherFailures == SelectSeq(trace, LAMBDA e : e.res \notin {"ok", "OperationalError"})

Fetches == SelectSeq(trace, LAMBDA e : e.op = "query" /\ e.res = "ok")

\* positions of trace holding connection attempts
ConnectAt == { i \in 1..Len(trace) : trace[i].op = "connect" }

Consecutive(i, j) == /\ i \in ConnectAt
                     /\ j \in ConnectAt
                     /\ i < j
                     /\ \A m \in ConnectAt : ~(i < m /\ m < j)

SleepsBetween(i, j) == Cardinality({ m \in (i + 1)..(j - 1) : trace[m].op = "sleep" })

\* the entry the call found was younger than the ttl
FoundFresh == call.entry.present /\ call.at - call.entry.ts < ttl

\* C1: a load_data() call made while an entry younger than the ttl exists
\* returns the value of that entry and makes no connection attempt and no query
ThmC1 ==
    (result # "none" /\ FoundFresh) =>
        /\ result = "hit"
        /\ df = call.entry.value
        /\ trace = <<>>
        /\ cache = call.entry
        /\ pc \notin {"connect", "query", "sleep"}

WitC1 == /\ result = "hit"
         /\ df = ExampleFrame
         /\ store = "down"
         /\ call.at - call.entry.ts = ttl - 1

\* C2: a load_data() execution makes at most `retries` connection attempts, and
\* between two consecutive attempts exactly one sleep of `delay` time units elapses
ThmC2 ==
    /\ Len(Connects) <= retries
    /\ \A i, j \in ConnectAt :
          Consecutive(i, j) => /\ SleepsBetween(i, j) = 1
                               /\ trace[j].at - trace[i].at = delay

WitC2 == /\ Len(Connects) = retries
         /\ Len(Sleeps) = retries - 1
         /\ Len(TransientFailures) = retries - 1

\* C3: when all `retries` attempts fail with a transient connection failure,
\* load_data() returns the empty collection, raises nothing, and exactly one
\* warning is emitted
ThmC3 ==
    (Len(TransientFailures) = retries) =>
        /\ result = "returned"
        /\ df = EmptyFrame
        /\ Len(Warnings) = 1
        /\ Len(Connects) = retries

WitC3 == /\ Len(TransientFailures) = retries
         /\ pc = "kpis"
         /\ \E i \in 1..Len(trace) : trace[i].op = "query"

\* C4: when an attempt succeeds, load_data() returns the collection that attempt
\* fetched, makes no later attempt, emits no warning, and the cache entry holds
\* that collection with the time of the return
ThmC4 ==
    (Fetches # <<>>) =>
        /\ Len(Fetches) = 1
        /\ trace[Len(trace)] = Fetches[1]
        /\ result = "returned"
        /\ df = Fetches[1].frame
        /\ Warnings = <<>>
        /\ cache = [present |-> TRUE, value |-> Fetches[1].frame, ts |-> Fetches[1].at]
        /\ Len(TransientFailures) = Len(Connects) - 1

WitC4 == /\ Fetches # <<>>
         /\ Len(Connects) = retries
         /\ df = ZeroRevenueFrame
         /\ call.entry.present

\* C5: what load_data() hands to main, and what the cache holds, is the result
\* of a successful query or the empty collection, never anything else
ThmC5 ==
    /\ result \in {"hit", "returned"} => df \in StoreFrames \cup {EmptyFrame}
    /\ cache.present => cache.value \in StoreFrames \cup {EmptyFrame}
    /\ (result = "returned" /\ df # EmptyFrame) => (Fetches # <<>> /\ df = Fetches[1].frame)

WitC5 == /\ pc = "done"
         /\ result = "returned"
         /\ df = NoRowsFrame
         /\ Len(TransientFailures) = 2

\* C6: a page run in which all connection attempts fail does not end in an
\* unhandled failure
InvC6 ==
    (Len(TransientFailures) = retries) => (pc # "crashed" /\ error = "none")

\* C7: a failure that is not a transient connection failure leaves load_data()
\* at once: no retry, no sleep and no warning follow it, nothing is returned
\* and the cache entry is left as the call found it
ThmC7 ==
    (OtherFailures # <<>>) =>
        /\ Len(OtherFailures) = 1
        /\ trace[Len(trace)] = OtherFailures[1]
        /\ result = "raised"
        /\ pc = "crashed"
        /\ error = OtherFailures[1].res
        /\ Warnings = <<>>
        /\ df = NoneValue
        /\ cache = call.entry
        /\ now = OtherFailures[1].at

WitC7 == /\ OtherFailures # <<>>
         /\ OtherFailures[1].res = "ProgrammingError"
         /\ Len(Connects) = 3
         /\ call.entry.present

\* C10: the empty collection returned after the last failed attempt is stored in
\* the cache, and a call that finds it younger than the ttl gets it back without
\* contacting the store, reachable or not
ThmC10 ==
    /\ (Len(TransientFailures) = retries) =>
          cache = [present |-> TRUE, value |-> EmptyFrame, ts |-> trace[Len(trace)].at]
    /\ (result # "none" /\ FoundFresh /\ call.entry.value = EmptyFrame) =>
          (result = "hit" /\ df = EmptyFrame /\ trace = <<>> /\ cache = call.entry)

WitC10 == /\ result = "hit"
          /\ df = EmptyFrame
          /\ store = "up"
          /\ call.at > call.entry.ts

(* ---------------- claims about calculate_kpis ---------------- *)
RECURSIVE Total(_, _, _)
\* the sum of a column, added up from the last row to the first
Total(rs, col, n) == IF n = 0 THEN 0 ELSE rs[n][col] + Total(rs, col, n - 1)

Revenue == Total(df.rows, "total_value", Len(df.rows))

Quantity == Total(df.rows, "quantity_sold", Len(df.rows))

Profit == Total(df.rows, "gross_profit", Len(df.rows))

\* r is the number p / q
IsRatio(r, p, q) == ~r.nan /\ r.den > 0 /\ r.num * q = p * r.den

\* C8: on records whose total_value sums to 0 the gross profit margin is 0
\* and the computation does not fail
ThmC8 ==
    (pc = "kpi_done" /\ df.cols /\ Revenue = 0) =>
        /\ kpis.err = "none"
        /\ error = "none"
        /\ ~kpis.gross_profit_margin.nan
        /\ kpis.gross_profit_margin.num = 0

WitC8 == /\ pc = "kpi_done"
         /\ Len(df.rows) = 2
         /\ df.rows[1].total_value = -1
         /\ Revenue = 0
         /\ Profit = 2

\* C9: on a non-empty collection the five KPIs are the sum of total_value, that
\* sum over the record count, the sum of quantity_sold, that sum over the record
\* count, and 100 * sum of gross_profit / total revenue when the revenue is not 0
ThmC9 ==
    (pc = "kpi_done" /\ df.cols /\ df.rows # <<>>) =>
        /\ kpis.err = "none"
        /\ IsRatio(kpis.total_revenue, Revenue, 1)
        /\ IsRatio(kpis.avg_order_value, Revenue, Len(df.rows))
        /\ IsRatio(kpis.total_quantity_sold, Quantity, 1)
        /\ IsRatio(kpis.avg_quantity_sold, Quantity, Len(df.rows))
        /\ (Revenue # 0 => IsRatio(kpis.gross_profit_margin, 100 * Profit, Revenue))
        /\ (df = ExampleFrame =>
               /\ kpis.total_revenue = [nan |-> FALSE, num |-> 300, den |-> 1]
               /\ kpis.avg_order_value = [nan |-> FALSE, num |-> 150, den |-> 1]
               /\ kpis.total_quantity_sold = [nan |-> FALSE, num |-> 5, den |-> 1]
               /\ kpis.avg_quantity_sold = [nan |-> FALSE, num |-> 5, den |-> 2]
               /\ kpis.gross_profit_margin = [nan |-> FALSE, num |-> 70, den |-> 3])

WitC9 == /\ pc = "kpi_done"
         /\ df = ExampleFrame
         /\ kpis.err = "none"
         /\ (kpis.gross_profit_margin.num * 100) \div kpis.gross_profit_margin.den = 2333
====
